---- MODULE Spec2Model ----
(***************************************************************************)
(* Model of bakesequencerlevels.py: sync_visible_levels_to_sequencer and   *)
(* its helpers.  Strings are sequences of one-character strings.  One run  *)
(* of sync_visible_levels_to_sequencer is one action: the script is        *)
(* single-threaded and synchronous, and everything the editor answers      *)
(* (add_track / add_section returning None) is an input of the action.     *)
(***************************************************************************)
EXTENDS Integers, Sequences, FiniteSets, TLC

VARIABLES
    sequence_open,    \* get_current_level_sequence() returns a sequence
    world_available,  \* get_editor_world() returns a world
    levels,           \* EditorLevelUtils.get_levels(world), in enumeration order
    has_track,        \* find_tracks_by_type(...) is non-empty
    sections,         \* visibility_track.get_sections(), in creation order
    reports,          \* what the last (at most two) consecutive runs logged
    package_arg,      \* NameSpec: the package path under resolution
    get_pkg_arg,      \* NameSpec: the wrapper's get_world_asset_package_name
    short_out,        \* NameSpec: result of _short_name_from_package
    display_out       \* NameSpec: the name appended to visible_level_names

vars == <<sequence_open, world_available, levels, has_track, sections, reports,
          package_arg, get_pkg_arg, short_out, display_out>>

syncVars == <<sequence_open, world_available, levels, has_track, sections, reports>>
nameVars == <<package_arg, get_pkg_arg, short_out, display_out>>

----------------------------------------------------------------------------
(* Bounds *)

MaxLevels == 2
MaxPreSections == 1
MaxLen == 4

----------------------------------------------------------------------------
(* Strings *)

None == <<"<None>">>
Empty == <<>>

Truthy(s) == s # None /\ s # Empty

LastOf(seq) == seq[Len(seq)]

IndicesOf(s, c) == {i \in 1..Len(s) : s[i] = c}

MaxOf(S) == CHOOSE m \in S : \A x \in S : x <= m
MinOf(S) == CHOOSE m \in S : \A x \in S : m <= x

\* str.rsplit(sep, 1): split once, at the last occurrence of sep
RSplit1(s, sep) ==
    IF IndicesOf(s, sep) = {}
    THEN <<s>>
    ELSE LET i == MaxOf(IndicesOf(s, sep))
         IN <<SubSeq(s, 1, i - 1), SubSeq(s, i + 1, Len(s))>>

\* str.split(sep): split at every occurrence of sep
RECURSIVE Split(_, _)
Split(s, sep) ==
    IF IndicesOf(s, sep) = {}
    THEN <<s>>
    ELSE LET i == MinOf(IndicesOf(s, sep))
         IN <<SubSeq(s, 1, i - 1)>> \o Split(SubSeq(s, i + 1, Len(s)), sep)

ShortName_FirstDotPiece(package_path) ==
    IF ~Truthy(package_path)
    THEN Empty
    ELSE LET tail == LastOf(RSplit1(package_path, "/"))
         IN Split(tail, ".")[1]

_short_name_from_package(package_path) ==
    IF ~Truthy(package_path)
    THEN Empty
    ELSE LET tail == LastOf(RSplit1(package_path, "/"))
         IN LastOf(Split(tail, "."))

\* unreal.Paths.get_base_filename(path): drop the directory, then the extension
get_base_filename(path) ==
    LET slashes == IndicesOf(path, "/") \cup IndicesOf(path, "\\")
        clean == IF slashes = {} THEN path
                 ELSE SubSeq(path, MaxOf(slashes) + 1, Len(path))
        dots == IndicesOf(clean, ".")
    IN IF dots = {} THEN clean ELSE SubSeq(clean, 1, MaxOf(dots) - 1)

_level_short_name(package_path) ==
    get_base_filename(IF Truthy(package_path) THEN package_path ELSE Empty)

\* getattr(streaming, "get_world_asset_package_name", None) and what calling it does
Absent == [kind |-> "absent", value |-> Empty]
Raises == [kind |-> "raises", value |-> Empty]
Returns(s) == [kind |-> "returns", value |-> s]

\* lines 71-80: the display name, from the wrapper's package name when it has one
PrettyName(package_path, get_pkg) ==
    IF get_pkg.kind = "returns" /\ Truthy(get_pkg.value)
    THEN _short_name_from_package(get_pkg.value)
    ELSE _short_name_from_package(package_path)

\* lines 71-87: the name a visible+loaded level contributes to visible_level_names
DisplayName(package_path, get_pkg) ==
    _level_short_name(PrettyName(package_path, get_pkg))

----------------------------------------------------------------------------
(* The scene and the track *)

PackagePaths == { <<"/", "a">>, <<"b", "/", "a">>, <<"a", "/">> }

GetPkgKinds == { Absent, Returns(<<"/", "b">>) }

\* a level of the world together with what get_streaming_level answers for it
PersistentLevel(p) ==
    [package_path |-> p, has_streaming |-> FALSE, is_visible |-> FALSE,
     is_loaded |-> FALSE, flags_raise |-> FALSE, get_pkg |-> Absent]

StreamingLevel(p, v, l, g) ==
    [package_path |-> p, has_streaming |-> TRUE, is_visible |-> v,
     is_loaded |-> l, flags_raise |-> FALSE, get_pkg |-> g]

\* a streaming wrapper whose is_level_visible()/is_level_loaded() raises
BrokenLevel(p) ==
    [package_path |-> p, has_streaming |-> TRUE, is_visible |-> FALSE,
     is_loaded |-> FALSE, flags_raise |-> TRUE, get_pkg |-> Absent]

Levels ==
    {PersistentLevel(p) : p \in PackagePaths}
    \cup {BrokenLevel(p) : p \in PackagePaths}
    \cup {StreamingLevel(p, TRUE, FALSE, Absent) : p \in PackagePaths}
    \cup {StreamingLevel(p, FALSE, TRUE, Absent) : p \in PackagePaths}
    \cup {StreamingLevel(p, TRUE, TRUE, g) : p \in PackagePaths, g \in GetPkgKinds}

\* package paths identify the levels of a world
Scenes ==
    UNION { { s \in [1..n -> Levels] :
                \A i, j \in 1..n : i # j => s[i].package_path # s[j].package_path }
            : n \in 0..MaxLevels }

\* unreal.Name(n) and str(name)
Name(n) == [name |-> n]
Str(name_or_path) == name_or_path.name

PlaybackRange == <<0, 100>>

Section(row, visible, names, range) ==
    [row_index |-> row,
     visibility |-> IF visible THEN "VISIBLE" ELSE "HIDDEN",
     level_names |-> [k \in 1..Len(names) |-> Name(names[k])],
     range |-> range]

----------------------------------------------------------------------------
(* sync_visible_levels_to_sequencer *)

Eligible_VisibleOnly(lvl) == lvl.is_visible

\* line 84
Eligible(lvl) == lvl.is_visible /\ lvl.is_loaded

\* lines 57-90: gather the visible+loaded streaming sublevels
RECURSIVE Gather(_, _, _, _)
Gather(lvls, i, paths, names) ==
    IF i > Len(lvls)
    THEN [raised |-> FALSE, paths |-> paths, names |-> names]
    ELSE LET lvl == lvls[i]
         IN IF lvl.has_streaming
            THEN IF lvl.flags_raise
                 THEN [raised |-> TRUE, paths |-> paths, names |-> names]
                 ELSE IF Eligible(lvl)
                      THEN Gather(lvls, i + 1,
                                  Append(paths, lvl.package_path),
                                  Append(names, DisplayName(lvl.package_path, lvl.get_pkg)))
                      ELSE Gather(lvls, i + 1, paths, names)
            ELSE Gather(lvls, i + 1, paths, names)

ExistingNames_FirstSectionOnly(secs) ==
    IF secs = <<>> THEN {}
    ELSE { Str(secs[1].level_names[j]) : j \in 1..Len(secs[1].level_names) }

\* lines 105-108
ExistingNames(secs) ==
    UNION { { Str(secs[k].level_names[j]) : j \in 1..Len(secs[k].level_names) }
            : k \in 1..Len(secs) }

RowIndexFor_LoopIndex(added, i) == i - 1

\* line 124: new_section.set_row_index(added)
RowIndexFor(added, i) == added

NewSectionNames_Unset(level_path) == <<>>

\* line 126: new_section.set_level_names([level_path])
NewSectionNames(level_path) == <<level_path>>

AddSection_OverwriteLast(secs, s) ==
    IF secs = <<>> THEN <<s>> ELSE [secs EXCEPT ![Len(secs)] = s]

\* lines 120, 124-127: the track appends the section add_section() created
AddSection(secs, s) == Append(secs, s)

AfterFailure_Break(i, names) == Len(names) + 1

\* lines 121-123: `continue` goes on with the next candidate
AfterFailure(i, names) == i + 1

\* lines 114-130; oracle[i] says whether add_section() for candidate i returns a section
RECURSIVE AddLoop(_, _, _, _, _)
AddLoop(names, i, existing, oracle, st) ==
    IF i > Len(names)
    THEN st
    ELSE IF names[i] \in existing
         THEN AddLoop(names, i + 1, existing, oracle,
                      [st EXCEPT !.outcomes = Append(@, "skip")])
         ELSE IF ~oracle[i]
              THEN AddLoop(names, AfterFailure(i, names), existing, oracle,
                           [st EXCEPT !.calls = Append(@, i),
                                      !.outcomes = Append(@, "failed")])
              ELSE AddLoop(names, i + 1, existing, oracle,
                           [sections |-> AddSection(st.sections,
                                             Section(RowIndexFor(st.added, i), TRUE,
                                                     NewSectionNames(names[i]), PlaybackRange)),
                            added |-> st.added + 1,
                            calls |-> Append(st.calls, i),
                            outcomes |-> Append(st.outcomes, "added")])

Report(status) ==
    [status |-> status, visible_level_paths |-> <<>>, visible_level_names |-> <<>>,
     existing |-> {}, calls |-> <<>>, outcomes |-> <<>>, added |-> 0,
     first |-> Len(sections), refreshed |-> FALSE]

\* lines 33-36
SequenceOk(open) == open

WorldOk_Always(available) == TRUE

\* lines 48-52
WorldOk(available) == available

\* lines 27-136, one run; add_track_ok: add_track() returns a track
SyncRun(add_track_ok, oracle) ==
    IF ~SequenceOk(sequence_open)
    THEN [has_track |-> has_track, sections |-> sections, report |-> Report("no_sequence")]
    ELSE IF ~has_track /\ ~add_track_ok
    THEN [has_track |-> FALSE, sections |-> sections, report |-> Report("no_track")]
    ELSE IF ~WorldOk(world_available)
    THEN [has_track |-> TRUE, sections |-> sections, report |-> Report("no_world")]
    ELSE LET g == Gather(levels, 1, <<>>, <<>>)
         IN IF g.raised
            THEN [has_track |-> TRUE, sections |-> sections, report |-> Report("raised")]
            ELSE IF g.names = <<>>
            THEN [has_track |-> TRUE, sections |-> sections, report |-> Report("no_visible")]
            ELSE LET existing == ExistingNames(sections)
                     st == AddLoop(g.names, 1, existing, oracle,
                                   [sections |-> sections, added |-> 0,
                                    calls |-> <<>>, outcomes |-> <<>>])
                 IN [has_track |-> TRUE,
                     sections |-> st.sections,
                     report |-> [status |-> "complete",
                                 visible_level_paths |-> g.paths,
                                 visible_level_names |-> g.names,
                                 existing |-> existing,
                                 calls |-> st.calls,
                                 outcomes |-> st.outcomes,
                                 added |-> st.added,
                                 first |-> Len(sections),
                                 refreshed |-> TRUE]]

\* keep the reports of the last two consecutive runs
Push(rs, r) == IF Len(rs) < 2 THEN Append(rs, r) ELSE <<rs[2], r>>

\* add_track() is called only when no track is found (line 41), and
\* add_section() at most once per gathered name (line 120)
Sync ==
    \E add_track_ok \in (IF has_track THEN {TRUE} ELSE BOOLEAN),
       oracle \in [1..Len(Gather(levels, 1, <<>>, <<>>).names) -> BOOLEAN] :
        LET run == SyncRun(add_track_ok, oracle)
        IN /\ has_track' = run.has_track
           /\ sections' = run.sections
           /\ reports' = Push(reports, run.report)
           /\ UNCHANGED <<sequence_open, world_available, levels, nameVars>>

----------------------------------------------------------------------------
(* add_level_visibility_section: sections put on the track by other scripts *)

HelperNames == { <<<<"a">>>>, <<<<"b">>, Empty>> }
HelperRows == {1}
HelperRange == <<0, 50>>

\* lines 17-24
add_level_visibility_section(level_names, visible, start_frame, end_frame, row) ==
    /\ has_track
    /\ Len(sections) < MaxPreSections
    /\ sections' = Append(sections, Section(row, visible, level_names, <<start_frame, end_frame>>))
    /\ reports' = <<>>
    /\ UNCHANGED <<sequence_open, world_available, levels, has_track, nameVars>>

AddLevelVisibilitySection ==
    \E level_names \in HelperNames, visible \in BOOLEAN, row \in HelperRows :
        add_level_visibility_section(level_names, visible, HelperRange[1], HelperRange[2], row)

----------------------------------------------------------------------------
(* Spec: scenes and tracks under sync *)

Init ==
    /\ sequence_open \in BOOLEAN
    /\ world_available \in BOOLEAN
    /\ levels \in Scenes
    /\ has_track \in BOOLEAN
    /\ sections = <<>>
    /\ reports = <<>>
    /\ package_arg = Empty
    /\ get_pkg_arg = Absent
    /\ short_out = None
    /\ display_out = None

Next == Sync \/ AddLevelVisibilitySection

Spec == Init /\ [][Next]_vars

----------------------------------------------------------------------------
(* NameSpec: _short_name_from_package and the display name, on bounded strings.  *)
(* Package names hold no backslash, so the alphabet has none.                    *)

Chars == {"/", ".", "a", "b"}

Strings == UNION { [1..n -> Chars] : n \in 0..MaxLen }

Example1 == <<"/","G","a","m","e","/","M","a","p","s","/","S","u","b","/",
              "M","y","S","u","b","_","A">>
Example2 == <<"/","G","a","m","e","/","X","/","Y",".","Y">>

GetPkgSamples == { Absent, Raises, Returns(Empty), Returns(None),
                   Returns(<<"/", "b">>), Returns(<<"a", "/", "b", ".", "a">>) }

PackageSamples == { Empty, <<"/", "a">>, <<"b", ".", "a">> }

Pending == <<"<pending>">>

InitName ==
    /\ \/ /\ package_arg \in Strings \cup {None, Example1, Example2}
          /\ get_pkg_arg \in GetPkgSamples
       \/ /\ package_arg \in PackageSamples
          /\ get_pkg_arg \in {Returns(s) : s \in Strings}
    /\ short_out = Pending
    /\ display_out = Pending
    /\ sequence_open = FALSE
    /\ world_available = FALSE
    /\ levels = <<>>
    /\ has_track = FALSE
    /\ sections = <<>>
    /\ reports = <<>>

\* a call of _short_name_from_package(package_arg)
CallShortName ==
    /\ short_out = Pending
    /\ short_out' = _short_name_from_package(package_arg)
    /\ UNCHANGED <<syncVars, package_arg, get_pkg_arg, display_out>>

\* lines 71-87 for one visible+loaded streaming level
CallDisplayName ==
    /\ display_out = Pending
    /\ display_out' = DisplayName(package_arg, get_pkg_arg)
    /\ UNCHANGED <<syncVars, package_arg, get_pkg_arg, short_out>>

NextName == CallShortName \/ CallDisplayName

NameSpec == InitName /\ [][NextName]_vars

----------------------------------------------------------------------------
(* Vocabulary of the properties *)

\* the part of s after its last c; all of s when it holds no c
AfterLast(s, c) ==
    IF \A i \in 1..Len(s) : s[i] # c
    THEN s
    ELSE LET i == CHOOSE k \in 1..Len(s) :
                      s[k] = c /\ \A m \in (k + 1)..Len(s) : s[m] # c
         IN [m \in 1..(Len(s) - i) |-> s[i + m]]

ExpectedShort(identity) ==
    IF identity = None \/ identity = Empty
    THEN Empty
    ELSE AfterLast(AfterLast(identity, "/"), ".")

ExpectedDisplay(package_path, get_pkg) ==
    IF get_pkg.kind = "returns" /\ get_pkg.value # None /\ get_pkg.value # Empty
    THEN ExpectedShort(get_pkg.value)
    ELSE ExpectedShort(package_path)

Ran == reports # <<>>
LastReport == reports[Len(reports)]

PreconditionAborts == {"no_sequence", "no_track", "no_world"}

\* the names on the track
NamesOfSection(s) == { s.level_names[j].name : j \in 1..Len(s.level_names) }

TrackNames == UNION { NamesOfSection(sections[k]) : k \in 1..Len(sections) }

\* indices of the sections the last run created
NewIndices == (LastReport.first + 1)..Len(sections)

\* levels that are streaming, visible and loaded
Candidate(lvl) ==
    lvl.has_streaming /\ ~lvl.flags_raise /\ lvl.is_visible /\ lvl.is_loaded

CandidateLevels == { k \in 1..Len(levels) : Candidate(levels[k]) }

\* the add_section call for level k returned None in the last run
AddFailedFor(k) ==
    \E c \in 1..Len(LastReport.outcomes) :
        /\ c <= Len(LastReport.visible_level_paths)
        /\ LastReport.visible_level_paths[c] = levels[k].package_path
        /\ LastReport.outcomes[c] = "failed"

HasOutcome(r, o) == \E c \in 1..Len(r.outcomes) : r.outcomes[c] = o

\* candidates of report r with the given outcomes, in order
PositionsWith(r, os) == { c \in 1..Len(r.outcomes) : r.outcomes[c] \in os }

RECURSIVE Ascending(_)
Ascending(S) ==
    IF S = {} THEN <<>>
    ELSE LET m == CHOOSE x \in S : \A y \in S : x <= y
         IN <<m>> \o Ascending(S \ {m})

----------------------------------------------------------------------------
(* Properties *)

C2_NoDuplicateInRun ==
    Ran => \A i, j \in NewIndices :
               i # j => sections[i].level_names # sections[j].level_names

\* C3 (as claimed): after a run that passed its preconditions and finished,
\* the track holds the display name of every streaming, visible, loaded level.
C3_Original ==
    (Ran /\ LastReport.status \in {"complete", "no_visible"})
    => \A k \in CandidateLevels :
           ExpectedDisplay(levels[k].package_path, levels[k].get_pkg) \in TrackNames

\* C3 (amended): after a run that passed its preconditions and finished, the
\* track holds the display name of every streaming, visible, loaded level
\* except those whose add_section call returned None in that run.
C3_Coverage ==
    (Ran /\ LastReport.status \in {"complete", "no_visible"})
    => \A k \in CandidateLevels :
           \/ ExpectedDisplay(levels[k].package_path, levels[k].get_pkg) \in TrackNames
           \/ AddFailedFor(k)

C3_Witness ==
    /\ Ran
    /\ LastReport.status = "complete"
    /\ LastReport.added >= 1
    /\ HasOutcome(LastReport, "failed")
    /\ \E k \in CandidateLevels : levels[k].package_path = <<"a", "/">>
    /\ Empty \in TrackNames

\* C4: a section is created only for a level with a streaming wrapper that
\* reports visible and loaded; persistent levels and half-ready streaming
\* levels never are candidates.
C4_Eligibility ==
    Ran =>
      /\ \A c \in 1..Len(LastReport.visible_level_paths) :
            \E k \in CandidateLevels :
                /\ levels[k].package_path = LastReport.visible_level_paths[c]
                /\ LastReport.visible_level_names[c] =
                       ExpectedDisplay(levels[k].package_path, levels[k].get_pkg)
      /\ \A i \in NewIndices :
            \E k \in CandidateLevels :
                sections[i].level_names =
                    <<[name |-> ExpectedDisplay(levels[k].package_path, levels[k].get_pkg)]>>
      /\ CandidateLevels = {} => (LastReport.added = 0 /\ NewIndices = {})

C4_Witness ==
    /\ Ran
    /\ LastReport.status = "complete"
    /\ LastReport.added = 1
    /\ Len(levels) = 2
    /\ \E k \in 1..Len(levels) :
          levels[k].has_streaming /\ levels[k].is_visible /\ ~levels[k].is_loaded

\* C5: the sections a run creates get rows 0, 1, ..., added-1 in the order of
\* the candidates, whatever is on the track and whatever was skipped or failed.
C5_Rows ==
    (Ran /\ LastReport.status = "complete")
    => LET created == Ascending(PositionsWith(LastReport, {"added"}))
       IN /\ Len(created) = LastReport.added
          /\ Len(sections) = LastReport.first + LastReport.added
          /\ \A n \in 1..LastReport.added :
                /\ sections[LastReport.first + n].row_index = n - 1
                /\ sections[LastReport.first + n].level_names =
                       <<[name |-> LastReport.visible_level_names[created[n]]]>>

C5_Witness ==
    /\ Ran
    /\ LastReport.status = "complete"
    /\ LastReport.first >= 1
    /\ sections[1].row_index = 1
    /\ \E c, d \in 1..Len(LastReport.outcomes) :
          c < d /\ LastReport.outcomes[c] # "added" /\ LastReport.outcomes[d] = "added"

\* C6: a level whose flags cannot be read is left out and the run goes on:
\* every other streaming, visible, loaded level is still synced by a run
\* that passed its preconditions.
C6_CaptureFailureLocal ==
    (Ran /\ LastReport.status \notin PreconditionAborts)
    => \A k \in CandidateLevels :
           \/ ExpectedDisplay(levels[k].package_path, levels[k].get_pkg) \in TrackNames
           \/ AddFailedFor(k)

\* C7: when add_section returns None for a candidate, the run skips it, calls
\* add_section exactly once for every candidate not on the track, reaches the
\* completion report and the refresh, and reports the number of sections created.
C7_CreationFailureLocal ==
    (Ran /\ LastReport.status = "complete")
    => /\ Len(LastReport.outcomes) = Len(LastReport.visible_level_names)
       /\ \A c \in 1..Len(LastReport.outcomes) :
             (LastReport.outcomes[c] = "skip")
                 <=> (LastReport.visible_level_names[c] \in LastReport.existing)
       /\ LastReport.calls =
              Ascending({ c \in 1..Len(LastReport.visible_level_names) :
                            LastReport.visible_level_names[c] \notin LastReport.existing })
       /\ LastReport.added = Cardinality(PositionsWith(LastReport, {"added"}))
       /\ LastReport.added = Len(sections) - LastReport.first
       /\ LastReport.refreshed

C7_Witness ==
    /\ Ran
    /\ LastReport.status = "complete"
    /\ LastReport.refreshed
    /\ LastReport.outcomes = <<"failed", "added">>
    /\ LastReport.added = 1

\* C8: a run never deletes or changes a section that was on the track; the
\* sections after the run are the ones before it followed by the ones it created.
C8_Additive ==
    [][ /\ Len(sections') >= Len(sections)
        /\ SubSeq(sections', 1, Len(sections)) = sections
        /\ reports' # <<>> =>
              Len(sections') = Len(sections) + reports'[Len(reports')].added
      ]_vars

C8_Witness ==
    /\ Ran
    /\ LastReport.status = "complete"
    /\ LastReport.first >= 1
    /\ LastReport.added >= 1
    /\ Len(sections) = LastReport.first + LastReport.added

\* C9: with no active sequence, no track to find or create, or no editor
\* world, the run reports an error and returns with the sections untouched.
C9_CleanAbort ==
    [][ (/\ reports' # <<>>
         /\ \/ ~sequence_open
            \/ ~world_available
            \/ reports'[Len(reports')].status = "no_track")
        => /\ sections' = sections
           /\ reports'[Len(reports')].status \in PreconditionAborts
           /\ reports'[Len(reports')].added = 0
           /\ reports'[Len(reports')].calls = <<>>
      ]_vars

C9_Witness ==
    /\ Ran
    /\ LastReport.status = "no_world"
    /\ ~world_available
    /\ Len(sections) >= 1
    /\ \E k \in CandidateLevels :
          ExpectedDisplay(levels[k].package_path, levels[k].get_pkg) \notin TrackNames

\* C10: _short_name_from_package returns the part after the last "." of the
\* last "/"-separated segment, "" for an empty or null identity; the display
\* name comes from the wrapper's package name when that is non-empty.
C10_NameResolution ==
    /\ short_out # Pending =>
          /\ short_out = ExpectedShort(package_arg)
          /\ package_arg = Example1 => short_out = <<"M","y","S","u","b","_","A">>
          /\ package_arg = Example2 => short_out = <<"Y">>
          /\ package_arg \in {Empty, None} => short_out = Empty
    /\ display_out # Pending =>
          display_out = ExpectedDisplay(package_arg, get_pkg_arg)

C10_Witness ==
    /\ package_arg = Example2
    /\ short_out = <<"Y">>
    /\ get_pkg_arg = Returns(<<"a", "/", "b", ".", "a">>)
    /\ display_out = <<"a">>

====
